---- MODULE Spec2Model ----
(***************************************************************************)
(* Photo-proof backend: upload pipeline (initiate / stream / complete),    *)
(* image PATCH, image comments, corrupted-image cleanup, and the batch     *)
(* action endpoint, modelled from the sources under src/.                  *)
(*                                                                         *)
(* The relational store (app/db/models.py) holds projects, categories,     *)
(* images, image versions and comments.  The upload storage is a directory *)
(* tree <project>/<category>/<file name>.  The batch endpoint works on the *)
(* JSON-file DataManager (app/services/data_manager.py), a separate store. *)
(***************************************************************************)
EXTENDS Integers, Sequences, FiniteSets, TLC

(* ---------------------------- bounds ----------------------------------- *)
MaxImages == 2
MaxComments == 2
MaxStreams == 1
MaxSteps == 8
MaxFiles == 2
MaxBatch == 3
MaxJsonComments == 2
MaxCalls == 2

(* ------------------------- program constants --------------------------- *)
MinImageSize == 100
SmallTextSize == 1000
HTTP_204 == 204
HTTP_400 == 400
HTTP_403 == 403
HTTP_404 == 404
HTTP_500 == 500

(* --------------------------- fixed data -------------------------------- *)
\* Python's None and the empty string are both falsy in `if requested:`.
NoneId == ""
GhostId == "ghost"

ProjectIds == {"p1", "p2", "p3"}
CategoryIds == {"c1", "c2", "c3"}
\* ids (uuid4) of the rows create_project inserts
NewProjectIds == {"p4"}
NewCategoryIds == {"c4", "c5", "c6"}
ClientIds == {"cl1", "cl2"}
NewClientIds == {"cl3"}

\* current_user as the dependency hands it to a handler
Users ==
  { [id |-> "u1", role |-> "studio_owner", studio_id |-> "s1"],
    [id |-> "u2", role |-> "client", studio_id |-> "s1"],
    [id |-> "u3", role |-> "studio_owner", studio_id |-> "s2"] }

\* the callers of the endpoints that look at the role only
Callers == {u \in Users : u.studio_id = "s1"}

\* A file name is a stem and a suffix; a raw name may carry directories.
JpgName == [stem |-> "a", suffix |-> ".JPG"]
TxtName == [stem |-> "n", suffix |-> ".txt"]
Names == {JpgName, TxtName}

\* What a file holds, as far as the validators look at it.  A body chunk is
\* larger than the write buffer, so it reaches the file when it is written.
NoFile == [size |-> -1, header |-> "absent", text |-> "absent"]
EmptyBytes == [size |-> 0, header |-> "short", text |-> "printable"]
JpegBytes == [size |-> 70000, header |-> "jpeg", text |-> "binary"]
BadHeaderBytes == [size |-> 70000, header |-> "other", text |-> "binary"]
ChunkContents == {JpegBytes, BadHeaderBytes}

\* The stored files the requests of the model can name.
Paths == {<<"c1", JpgName>>, <<"c2", JpgName>>, <<"c3", JpgName>>}

(* ------------------------- pure helpers -------------------------------- *)
Truthy(s) == s # NoneId

\* str.lower() on the suffixes that occur
Lower(s) ==
  CASE s = ".JPG" -> ".jpg"
    [] s = ".JPEG" -> ".jpeg"
    [] s = ".PNG" -> ".png"
    [] OTHER -> s

\* Path(value).name : the last path component
SanitizeSegment(raw) == raw[Len(raw)]

ImageExtensions == {".jpg", ".jpeg", ".png", ".gif", ".bmp", ".webp", ".tiff", ".tif"}

IsImageFile(name) == Lower(name.suffix) \in ImageExtensions

\* a header check that accepts any leading bytes
HeaderAny(suffix, header) == header # "absent"

HeaderOk(suffix, header) ==
  CASE suffix \in {".jpg", ".jpeg"} -> header = "jpeg"
    [] suffix = ".png" -> header = "png"
    [] suffix = ".gif" -> header \in {"gif87a", "gif89a"}
    [] suffix = ".bmp" -> header = "bmp"
    [] suffix = ".webp" -> header = "webp"
    [] OTHER -> TRUE

\* text = "binary": UnicodeDecodeError; "phrase": decodes and holds a test
\* phrase; "printable": decodes, isprintable(); "unprintable": decodes only.
TextOk(content) ==
  CASE content.text = "binary" -> TRUE
    [] content.text = "phrase" -> FALSE
    [] content.text = "printable" -> ~(content.size < SmallTextSize)
    [] OTHER -> TRUE

ValidateImageFile(content, name) ==
  IF content = NoFile THEN FALSE
  ELSE IF content.size < MinImageSize THEN FALSE
  ELSE IF ~HeaderOk(Lower(name.suffix), content.header) THEN FALSE
  ELSE TextOk(content)

(* ----------------------------- state ----------------------------------- *)
VARIABLES
  files,        \* upload storage: path -> content, NoFile when absent
  streams,      \* in-flight streamed PUTs, one slot per connection
  projects,     \* project row: studio, denormalized counters
  categories,   \* category row: project, is_default, order, image_count
  images,       \* set of image rows
  versions,     \* set of image version rows
  comments,     \* set of comment rows
  nextImageId,
  nextCommentId,
  clients,      \* client row: studio, email, total_projects
  settings,     \* project_settings rows, by project id
  initiated,    \* history: paths for which Initiate has returned a target URL
  resp,         \* the response of the last request handled
  jimages,      \* DataManager: images of the JSON project, by photo id
  jcomments,    \* DataManager: comments.json
  batch,        \* the batch request being processed
  calls,        \* requests whose handler has read the database and not yet committed
  steps         \* requests (and stream steps) handled so far

vars == <<files, streams, projects, categories, images, versions, comments,
          nextImageId, nextCommentId, clients, settings, initiated, resp, jimages, jcomments, batch,
          calls, steps>>

sqlVars == <<projects, categories, images, versions, comments, nextImageId, nextCommentId,
            clients, settings>>
jsonVars == <<jimages, jcomments, batch>>

\* a request slot: what the handler holds in its session between its reads
\* and its commit
IdleCall == [pc |-> "idle", op |-> "none", u |-> NoneId, p |-> NoneId, c |-> NoneId,
             path |-> <<>>, original |-> NoFile, image_id |-> 0, parent_id |-> 0, size |-> 0,
             total_images |-> 0, storage_used_bytes |-> 0, image_count |-> 0,
             comment_count |-> 0]

IdleStream == [st |-> "idle", path |-> <<"c1", JpgName>>, wrote |-> FALSE, attached |-> FALSE]

\* key: the (project, category, original file name) a Complete answered for
NoResp == [op |-> "none", status |-> 0, detail |-> "", image_id |-> 0, already_exists |-> FALSE,
           key |-> <<>>]

Reply(op, status, detail) == [NoResp EXCEPT !.op = op, !.status = status, !.detail = detail]

\* a row that is not in its table
NoProject == [studio_id |-> NoneId, client_id |-> NoneId, total_images |-> 0,
              storage_used_bytes |-> 0, total_comments |-> 0]
NoCategory == [project_id |-> NoneId, name |-> NoneId, is_default |-> FALSE, rowid |-> 0,
               order_index |-> 0, image_count |-> 0]
NoClient == [studio_id |-> NoneId, email |-> NoneId, total_projects |-> 0]

\* db.query(models.Project).filter(models.Project.id == project_id).first()
ProjectExists(p) == p \in DOMAIN projects /\ projects[p] # NoProject

ProjectCategories(p) == {c \in DOMAIN categories : categories[c].project_id = p}

\* project.categories in load order (no ORDER BY on the relationship: rowid order)
CategoryList(p) ==
  LET cs == ProjectCategories(p)
      before(c) == {d \in cs : categories[d].rowid <= categories[c].rowid}
  IN [k \in 1..Cardinality(cs) |-> CHOOSE c \in cs : Cardinality(before(c)) = k]

\* the stores after construction
InitStores ==
  /\ files = [p \in Paths |-> NoFile]
  /\ streams = [s \in 1..MaxStreams |-> IdleStream]
  /\ projects = [p \in ProjectIds \cup NewProjectIds |->
        IF p \in NewProjectIds THEN NoProject
        ELSE [studio_id |-> "s1", client_id |-> IF p = "p3" THEN "cl2" ELSE "cl1",
              total_images |-> 0, storage_used_bytes |-> 0, total_comments |-> 0]]
  /\ categories =
        [c \in CategoryIds \cup NewCategoryIds |->
           CASE c = "c1" -> [project_id |-> "p1", name |-> "all-photos", is_default |-> FALSE,
                             rowid |-> 1, order_index |-> 2, image_count |-> 0]
             [] c = "c2" -> [project_id |-> "p1", name |-> "favorites", is_default |-> TRUE,
                             rowid |-> 2, order_index |-> 1, image_count |-> 0]
             [] c = "c3" -> [project_id |-> "p2", name |-> "all-photos", is_default |-> FALSE,
                             rowid |-> 3, order_index |-> 1, image_count |-> 0]
             [] OTHER -> NoCategory]
  /\ clients = [k \in ClientIds \cup NewClientIds |->
        CASE k = "cl1" -> [studio_id |-> "s1", email |-> "a@x", total_projects |-> 2]
          [] k = "cl2" -> [studio_id |-> "s1", email |-> "b@x", total_projects |-> 1]
          [] OTHER -> NoClient]
  /\ settings = ProjectIds
  /\ images = {}
  /\ versions = {}
  /\ comments = {}
  /\ nextImageId = 1
  /\ nextCommentId = 1
  /\ initiated = {}
  /\ steps = 0
  /\ calls = [k \in 1..MaxCalls |-> IdleCall]
  /\ jimages = [ph \in {"ph1"} |->
        [is_selected |-> FALSE, is_favorite |-> FALSE, tags |-> <<"portrait">>, comment_count |-> 0]]
  /\ jcomments = <<>>
  /\ batch = [pc |-> "idle", total |-> 0, accepted |-> <<>>, failed |-> <<>>,
              processed_actions |-> {}, processed_count |-> 0, total_count |-> 0]

Init == InitStores /\ resp = NoResp

(* ---------------------- category resolution ---------------------------- *)
\* _resolve_category_id: "error" stands for the HTTP 400 it raises
ResolveCategoryId(p, requested) ==
  IF Truthy(requested)
  THEN IF requested \in ProjectCategories(p) THEN requested ELSE "error"
  ELSE LET cl == CategoryList(p)
           defaults == {i \in 1..Len(cl) : categories[cl[i]].is_default}
       IN IF defaults # {}
          THEN cl[CHOOSE i \in defaults : \A j \in defaults : i <= j]
          ELSE IF Len(cl) > 0 THEN cl[1] ELSE NoneId

(* ------------------------- storage helpers ----------------------------- *)
\* Path.exists() / stat(): a path no request of the model writes is absent.
FileAt(path) == IF path \in Paths THEN files[path] ELSE NoFile

\* Path.unlink(missing_ok=True) / os.remove: the directory entry goes; a
\* writer that still holds the file open keeps writing to the orphan inode.
Unlink(ps) == [p \in Paths |-> IF p \in ps THEN NoFile ELSE files[p]]

Detach(ps) ==
  [s \in DOMAIN streams |->
     IF streams[s].st = "open" /\ streams[s].path \in ps
     THEN [streams[s] EXCEPT !.attached = FALSE]
     ELSE streams[s]]

(* --------------------- POST /api/uploads/initiate ---------------------- *)
Descriptors ==
  { [file_name |-> <<JpgName>>, category_id |-> NoneId],
    [file_name |-> <<"..", JpgName>>, category_id |-> "c1"],
    [file_name |-> <<JpgName>>, category_id |-> GhostId] }

DescriptorLists == UNION {[1..n -> Descriptors] : n \in 1..MaxFiles}

UploadUrlInfo(p, d) ==
  LET category_id == ResolveCategoryId(p, d.category_id)
  IN [file_name |-> SanitizeSegment(d.file_name),
      category_id |-> category_id,
      category_segment |-> IF Truthy(category_id) THEN category_id ELSE "uncategorized"]

InitiateUploads(u, p, ds) ==
  /\ UNCHANGED <<files, streams, sqlVars, jsonVars, calls>>
  /\ IF u.role = "client"
     THEN /\ resp' = Reply("initiate", HTTP_403, "Only studio users can upload images")
          /\ UNCHANGED initiated
     ELSE IF ~ProjectExists(p)
     THEN /\ resp' = Reply("initiate", HTTP_404, "Project not found")
          /\ UNCHANGED initiated
     ELSE IF \E i \in DOMAIN ds : ResolveCategoryId(p, ds[i].category_id) = "error"
     THEN /\ resp' = Reply("initiate", HTTP_400, "Invalid category for project")
          /\ UNCHANGED initiated
     ELSE LET urls == [i \in DOMAIN ds |-> UploadUrlInfo(p, ds[i])]
          IN /\ resp' = Reply("initiate", 200, "")
             /\ initiated' = initiated \cup
                  {<<urls[i].category_id, urls[i].file_name>> :
                      i \in {j \in DOMAIN urls : Truthy(urls[j].category_id)}}

(* ------------- PUT /api/uploads/stream/{project}/{category}/{file} ----- *)
\* the {category_id}/{file_name} parts of the target URLs clients PUT to
StreamTargets ==
  { [category_id |-> "c1", file_name |-> <<JpgName>>],
    [category_id |-> "c2", file_name |-> <<"..", JpgName>>],
    [category_id |-> "c3", file_name |-> <<JpgName>>],
    [category_id |-> "uncategorized", file_name |-> <<JpgName>>] }

\* The handler is a coroutine: it opens the destination for writing, then
\* awaits the request body chunk by chunk; other requests run in between.
\* u is the caller of the request: the handler has no current_user
\* dependency and never looks at it.
StreamOpen(u, s, p, c, raw) ==
  /\ streams[s].st = "idle"
  /\ \A t \in 1..(s-1) : streams[t].st # "idle"
  /\ UNCHANGED <<sqlVars, jsonVars, calls, initiated>>
  /\ IF ~ProjectExists(p)
     THEN /\ resp' = Reply("stream", HTTP_404, "Project not found")
          /\ UNCHANGED <<files, streams>>
     ELSE IF ~(c \in DOMAIN categories /\ categories[c].project_id = p)
     THEN /\ resp' = Reply("stream", HTTP_400, "Invalid category for project")
          /\ UNCHANGED <<files, streams>>
     ELSE LET path == <<c, SanitizeSegment(raw)>>
          IN /\ files' = [files EXCEPT ![path] = EmptyBytes]
             /\ streams' = [streams EXCEPT ![s] =
                   [st |-> "open", path |-> path, wrote |-> FALSE, attached |-> TRUE]]
             /\ resp' = Reply("stream_open", 0, "")

\* the body of a request of the model arrives as one chunk
StreamChunk(s, bytes) ==
  /\ streams[s].st = "open"
  /\ ~streams[s].wrote
  /\ UNCHANGED <<sqlVars, jsonVars, calls, initiated>>
  /\ streams' = [streams EXCEPT ![s].wrote = TRUE]
  /\ files' = IF streams[s].attached
              THEN [files EXCEPT ![streams[s].path] = bytes]
              ELSE files
  /\ resp' = Reply("stream_chunk", 0, "")

\* What the handler does once the body ends (eof) or the read raises (error):
\* "ok", or the detail of the failure.
StreamVerdict(s, outcome) ==
  LET r == streams[s]
  IN IF outcome = "error" THEN "Failed to write file"
     ELSE IF ~r.wrote THEN "Uploaded file is empty"
     ELSE IF IsImageFile(r.path[2]) /\ ~ValidateImageFile(files[r.path], r.path[2])
     THEN "Uploaded file is not a valid image"
     ELSE "ok"

\* a handler that unlinks only what failed validation
StreamCleanupInvalid(s, verdict) ==
  IF verdict = "Uploaded file is not a valid image" THEN {streams[s].path} ELSE {}

\* The paths the handler unlinks on a failure.
StreamCleanup(s, verdict) == IF verdict = "ok" THEN {} ELSE {streams[s].path}

StreamFinish(s, outcome) ==
  /\ streams[s].st = "open"
  /\ UNCHANGED <<sqlVars, jsonVars, calls, initiated>>
  /\ LET verdict == StreamVerdict(s, outcome)
         gone == StreamCleanup(s, verdict)
     IN /\ files' = Unlink(gone)
        /\ streams' = [Detach(gone) EXCEPT ![s] = IdleStream]
        /\ resp' = Reply("stream", IF verdict = "ok" THEN HTTP_204 ELSE HTTP_500, verdict)

(* ----------------------- PUT /api/uploads/complete --------------------- *)
\* .first() on an unordered query: the row inserted first (rowid order)
FirstImage(rows) == CHOOSE i \in rows : \A j \in rows : i.id <= j.id

\* a lookup by stored key instead of original file name
DuplicateByKey(p, original, c) ==
  {i \in images : i.project_id = p /\ i.s3_key_original = <<c, original>>}

\* the duplicate lookup of complete_upload
DuplicateOf(p, original, c) ==
  {i \in images : i.project_id = p /\ i.original_filename = original /\ i.category_id = c}

\* a resolution that falls back to the first category at once
CompleteCategoryFirst(p, requested) ==
  LET cl == CategoryList(p)
  IN IF Truthy(requested)
     THEN IF requested \in ProjectCategories(p) THEN requested ELSE "error"
     ELSE IF Len(cl) > 0 THEN cl[1] ELSE NoneId

\* the category complete_upload works with: "error" (400 raised by the
\* resolver), NoneId (no category available), or a category id
CompleteCategory(p, requested) ==
  LET category_id == ResolveCategoryId(p, requested)
      cl == CategoryList(p)
  IN IF category_id = "error" THEN "error"
     ELSE IF Truthy(category_id) THEN category_id
     ELSE IF Len(cl) > 0 THEN cl[1] ELSE NoneId

\* the stored file complete_upload looks at
StoredPath(p, requested, raw) == <<CompleteCategory(p, requested), SanitizeSegment(raw)>>

\* a check of presence alone
StoredFilePresent(path) == FileAt(path) # NoFile

\* whether the stored file is accepted by the integrity check of complete_upload
StoredFileOk(path) == ~IsImageFile(path[2]) \/ ValidateImageFile(FileAt(path), path[2])

\* uploaded_at is datetime.utcnow(): the clock of the model is the number of
\* images inserted so far
NewImage(p, c, original, path, u) ==
  [id |-> nextImageId, project_id |-> p, category_id |-> c,
   original_filename |-> original, s3_key_original |-> path,
   file_size_bytes |-> files[path].size, comment_count |-> 0,
   uploaded_at |-> nextImageId]

\* the counters complete_upload writes after inserting the rows
CountUpload(p, c, size) ==
  /\ projects' = [projects EXCEPT ![p].total_images = @ + 1,
                                  ![p].storage_used_bytes = @ + size]
  /\ categories' = [categories EXCEPT ![c].image_count = @ + 1]

CompleteUpload(u, p, requested, raw, original) ==
  /\ UNCHANGED <<jsonVars, calls, initiated, comments, nextCommentId, clients, settings>>
  /\ IF u.role = "client"
     THEN /\ resp' = Reply("complete", HTTP_403, "Only studio users can upload images")
          /\ UNCHANGED <<files, streams, projects, categories, images, versions, nextImageId>>
     ELSE IF ~ProjectExists(p)
     THEN /\ resp' = Reply("complete", HTTP_404, "Project not found")
          /\ UNCHANGED <<files, streams, projects, categories, images, versions, nextImageId>>
     ELSE IF CompleteCategory(p, requested) = "error"
     THEN /\ resp' = Reply("complete", HTTP_400, "Invalid category for project")
          /\ UNCHANGED <<files, streams, projects, categories, images, versions, nextImageId>>
     ELSE IF ~Truthy(CompleteCategory(p, requested))
     THEN /\ resp' = Reply("complete", HTTP_400, "No category available for project")
          /\ UNCHANGED <<files, streams, projects, categories, images, versions, nextImageId>>
     ELSE LET c == CompleteCategory(p, requested)
              path == StoredPath(p, requested, raw)
              duplicate == DuplicateOf(p, original, c)
          IN IF FileAt(path) = NoFile
             THEN /\ resp' = Reply("complete", HTTP_400, "Uploaded file not found on server")
                  /\ UNCHANGED <<files, streams, projects, categories, images, versions, nextImageId>>
             ELSE IF ~StoredFileOk(path)
             THEN /\ files' = Unlink({path})
                  /\ streams' = Detach({path})
                  /\ resp' = Reply("complete", HTTP_400, "Uploaded file is corrupted or invalid")
                  /\ UNCHANGED <<projects, categories, images, versions, nextImageId>>
             ELSE IF duplicate # {}
             THEN /\ resp' = [Reply("complete", 200, "") EXCEPT
                                !.image_id = FirstImage(duplicate).id,
                                !.already_exists = TRUE,
                                !.key = <<p, c, original>>]
                  /\ UNCHANGED <<files, streams, projects, categories, images, versions, nextImageId>>
             ELSE /\ nextImageId <= MaxImages
                  /\ images' = images \cup {NewImage(p, c, original, path, u)}
                  /\ versions' = versions \cup
                       {[image_id |-> nextImageId, version_name |-> "original", s3_key |-> path]}
                  /\ CountUpload(p, c, files[path].size)
                  /\ nextImageId' = nextImageId + 1
                  /\ resp' = [Reply("complete", 200, "") EXCEPT
                                !.image_id = nextImageId,
                                !.key = <<p, c, original>>]
                  /\ UNCHANGED <<files, streams>>

(* ------------- PATCH /api/projects/{project}/images/{image} ------------ *)
ImageById(id) == {i \in images : i.id = id}

\* a category lookup by id alone
PatchCategoryAny(image, category_id) == {c \in DOMAIN categories : c = category_id}

\* the category lookup of update_project_image; {} when there is none
PatchCategory(image, category_id) ==
  {c \in DOMAIN categories : categories[c].project_id = image.project_id /\ c = category_id}

\* the counters update_project_image recomputes after the flush
RecountAfterPatch(rows, image, previous_category_id, new_category_id) ==
  /\ projects' = [projects EXCEPT ![image.project_id].total_images =
        Cardinality({i \in rows : i.project_id = image.project_id})]
  /\ categories' =
       [c \in DOMAIN categories |->
          IF \/ (Truthy(previous_category_id) /\ previous_category_id # new_category_id
                   /\ c = previous_category_id)
             \/ (Truthy(new_category_id) /\ c = new_category_id)
          THEN [categories[c] EXCEPT !.image_count =
                  Cardinality({i \in rows : i.category_id = c})]
          ELSE categories[c]]

UpdateProjectImage(u, image_id, category_id) ==
  /\ UNCHANGED <<files, streams, jsonVars, calls, initiated, versions, comments,
                 nextImageId, nextCommentId, clients, settings>>
  /\ IF ImageById(image_id) = {}
     THEN /\ resp' = Reply("patch", HTTP_404, "Image not found")
          /\ UNCHANGED <<projects, categories, images>>
     ELSE LET image == CHOOSE i \in ImageById(image_id) : TRUE
          IN IF u.role = "client" \/ u.studio_id # projects[image.project_id].studio_id
             THEN /\ resp' = Reply("patch", HTTP_403, "Not authorized to update images")
                  /\ UNCHANGED <<projects, categories, images>>
             ELSE IF Truthy(category_id) /\ PatchCategory(image, category_id) = {}
             THEN /\ resp' = Reply("patch", HTTP_400, "Category not found")
                  /\ UNCHANGED <<projects, categories, images>>
             ELSE LET new_category_id == IF Truthy(category_id) THEN category_id
                                         ELSE image.category_id
                      rows == (images \ {image}) \cup
                                {[image EXCEPT !.category_id = new_category_id]}
                  IN /\ images' = rows
                     /\ RecountAfterPatch(rows, image, image.category_id, new_category_id)
                     /\ resp' = [Reply("patch", 200, "") EXCEPT !.image_id = image_id]

(* ------- POST /api/projects/{project}/images/{image}/comments ---------- *)
CommentIds == {c.id : c \in comments}

\* an increment of the image's counter alone
CountCommentOnImage(rows, image) ==
  /\ images' = (rows \ {image}) \cup {[image EXCEPT !.comment_count = @ + 1]}
  /\ UNCHANGED projects

\* the counters create_image_comment increments
CountComment(rows, image) ==
  /\ images' = (rows \ {image}) \cup {[image EXCEPT !.comment_count = @ + 1]}
  /\ projects' = [projects EXCEPT ![image.project_id].total_comments = @ + 1]

\* parent_id 0 is None; a parent_id that names no comment breaks the foreign
\* key on commit and the session is rolled back.
CreateImageComment(u, image_id, parent_id) ==
  /\ UNCHANGED <<files, streams, jsonVars, calls, initiated, versions, categories, nextImageId,
                 clients, settings>>
  /\ IF ImageById(image_id) = {}
     THEN /\ resp' = Reply("comment", HTTP_404, "Image not found")
          /\ UNCHANGED <<projects, images, comments, nextCommentId>>
     ELSE IF parent_id # 0 /\ parent_id \notin CommentIds
     THEN /\ resp' = [Reply("comment", HTTP_500, "IntegrityError") EXCEPT !.image_id = image_id]
          /\ UNCHANGED <<projects, images, comments, nextCommentId>>
     ELSE LET image == CHOOSE i \in ImageById(image_id) : TRUE
          IN /\ nextCommentId <= MaxComments
             /\ comments' = comments \cup
                  {[id |-> nextCommentId, image_id |-> image_id, parent_id |-> parent_id]}
             /\ CountComment(images, image)
             /\ nextCommentId' = nextCommentId + 1
             /\ resp' = [Reply("comment", 201, "") EXCEPT !.image_id = image_id]

(* ------------- requests running side by side (thread pool) ------------ *)
\* complete_upload and create_image_comment are plain functions: each request
\* runs in its own thread with its own session. The SELECTs of a session run
\* outside any write transaction; the rows are written back at commit with
\* the values computed from what the session read.

\* complete_upload reaches the insert: no early return, no duplicate found
CompleteInserts(u, p, requested, raw, original) ==
  /\ u.role # "client"
  /\ ProjectExists(p)
  /\ CompleteCategory(p, requested) # "error"
  /\ Truthy(CompleteCategory(p, requested))
  /\ FileAt(StoredPath(p, requested, raw)) # NoFile
  /\ StoredFileOk(StoredPath(p, requested, raw))
  /\ DuplicateOf(p, original, CompleteCategory(p, requested)) = {}

\* complete_upload up to and including the duplicate query
CompleteLoad(k, u, p, requested, raw, original) ==
  /\ calls[k].pc = "idle"
  /\ IF ~CompleteInserts(u, p, requested, raw, original)
     THEN CompleteUpload(u, p, requested, raw, original)
     ELSE LET c == CompleteCategory(p, requested)
              path == StoredPath(p, requested, raw)
          IN /\ calls' = [calls EXCEPT ![k] =
                   [IdleCall EXCEPT !.pc = "loaded", !.op = "complete", !.u = u.id, !.p = p,
                      !.c = c, !.path = path, !.original = original,
                      !.size = files[path].size,
                      !.total_images = projects[p].total_images,
                      !.storage_used_bytes = projects[p].storage_used_bytes,
                      !.image_count = categories[c].image_count]]
             /\ resp' = Reply("complete_load", 0, "")
             /\ UNCHANGED <<files, streams, sqlVars, jsonVars, initiated>>

\* complete_upload from db.add(image) to db.commit()
CompleteCommit(k) ==
  LET call == calls[k]
  IN /\ call.pc = "loaded" /\ call.op = "complete"
     /\ nextImageId <= MaxImages
     /\ images' = images \cup
          {[id |-> nextImageId, project_id |-> call.p, category_id |-> call.c,
            original_filename |-> call.original, s3_key_original |-> call.path,
            file_size_bytes |-> call.size, comment_count |-> 0,
            uploaded_at |-> nextImageId]}
     /\ versions' = versions \cup
          {[image_id |-> nextImageId, version_name |-> "original", s3_key |-> call.path]}
     /\ projects' = [projects EXCEPT
          ![call.p].total_images = call.total_images + 1,
          ![call.p].storage_used_bytes = call.storage_used_bytes + call.size]
     /\ categories' = [categories EXCEPT ![call.c].image_count = call.image_count + 1]
     /\ nextImageId' = nextImageId + 1
     /\ calls' = [calls EXCEPT ![k] = IdleCall]
     /\ resp' = [Reply("complete", 200, "") EXCEPT
                   !.image_id = nextImageId, !.key = <<call.p, call.c, call.original>>]
     /\ UNCHANGED <<files, streams, jsonVars, initiated, comments, nextCommentId,
                    clients, settings>>

\* deps.get_project_image: the image row enters the session
CommentLoad(k, u, image_id, parent_id) ==
  /\ calls[k].pc = "idle"
  /\ IF ImageById(image_id) = {}
     THEN CreateImageComment(u, image_id, parent_id)
     ELSE LET image == CHOOSE i \in ImageById(image_id) : TRUE
          IN /\ calls' = [calls EXCEPT ![k] =
                   [IdleCall EXCEPT !.pc = "loaded", !.op = "comment", !.u = u.id,
                      !.p = image.project_id, !.image_id = image_id,
                      !.parent_id = parent_id, !.comment_count = image.comment_count]]
             /\ resp' = Reply("comment_load", 0, "")
             /\ UNCHANGED <<files, streams, sqlVars, jsonVars, initiated>>

\* the body of create_image_comment: image.comment_count is the value the
\* session loaded, image.project is loaded here, right before the commit
CommentCommit(k) ==
  LET call == calls[k]
  IN /\ call.pc = "loaded" /\ call.op = "comment"
     /\ calls' = [calls EXCEPT ![k] = IdleCall]
     /\ UNCHANGED <<files, streams, jsonVars, initiated, versions, categories, nextImageId,
                    clients, settings>>
     /\ IF call.parent_id # 0 /\ call.parent_id \notin CommentIds
        THEN /\ resp' = [Reply("comment", HTTP_500, "IntegrityError") EXCEPT
                           !.image_id = call.image_id]
             /\ UNCHANGED <<projects, images, comments, nextCommentId>>
        ELSE /\ nextCommentId <= MaxComments
             /\ comments' = comments \cup
                  {[id |-> nextCommentId, image_id |-> call.image_id,
                    parent_id |-> call.parent_id]}
             /\ images' = {IF i.id = call.image_id
                           THEN [i EXCEPT !.comment_count = call.comment_count + 1]
                           ELSE i : i \in images}
             /\ projects' = [projects EXCEPT ![call.p].total_comments = @ + 1]
             /\ nextCommentId' = nextCommentId + 1
             /\ resp' = [Reply("comment", 201, "") EXCEPT !.image_id = call.image_id]

(* --------------------------- /api/projects ----------------------------- *)
\* client_email.lower() on the addresses that occur
LowerEmail(e) == IF e = "A@X" THEN "a@x" ELSE e

\* _default_category_templates; order_index 0 is None
DefaultCategoryTemplates ==
  << [name |-> "all", is_default |-> TRUE, order_index |-> 1],
     [name |-> "favorites", is_default |-> FALSE, order_index |-> 2],
     [name |-> "highlights", is_default |-> FALSE, order_index |-> 3] >>

\* request.categories: absent, one category without order_index, two
\* categories that share an order_index, or two that share their name
CategoryRequestLists ==
  { <<>>,
    << [name |-> "Extras", is_default |-> FALSE, order_index |-> 0] >>,
    << [name |-> "Extras", is_default |-> TRUE, order_index |-> 1],
       [name |-> "All Photos", is_default |-> FALSE, order_index |-> 1] >>,
    << [name |-> "Extras", is_default |-> TRUE, order_index |-> 1],
       [name |-> "Extras", is_default |-> TRUE, order_index |-> 2] >> }

\* CreateProjectRequest: client_id NoneId is None; no request carries a phone
CreateProjectRequests ==
  [client_id : {NoneId, "cl1", GhostId}, client_email : {"A@X", "n@x"},
   categories : CategoryRequestLists]

FreeProjectIds == {p \in NewProjectIds : projects[p] = NoProject}
FreeCategoryIds == {c \in NewCategoryIds : categories[c] = NoCategory}
FreeClientIds == {k \in NewClientIds : clients[k] = NoClient}

\* the rowid SQLite gives the next row of the categories table
LastCategoryRowid ==
  LET rs == {categories[c].rowid : c \in DOMAIN categories}
  IN CHOOSE r \in rs : \A q \in rs : q <= r

\* client_query: the clients of the caller's studio
StudioClients(u) == {k \in DOMAIN clients : clients[k] # NoClient /\ clients[k].studio_id = u.studio_id}

CreateProject(u, request) ==
  /\ UNCHANGED <<files, streams, jsonVars, calls, initiated, images, versions, comments,
                 nextImageId, nextCommentId>>
  /\ IF u.role = "client"
     THEN /\ resp' = Reply("create_project", HTTP_403, "Only studio users can create projects")
          /\ UNCHANGED <<projects, categories, clients, settings>>
     ELSE IF ~Truthy(u.studio_id)
     THEN /\ resp' = Reply("create_project", HTTP_400, "Studio assignment required for user")
          /\ UNCHANGED <<projects, categories, clients, settings>>
     ELSE IF Truthy(request.client_id) /\ request.client_id \notin StudioClients(u)
     THEN /\ resp' = Reply("create_project", HTTP_400, "Selected client is not available")
          /\ UNCHANGED <<projects, categories, clients, settings>>
     ELSE IF /\ ~Truthy(request.client_id)
             /\ \E k \in StudioClients(u) : clients[k].email = LowerEmail(request.client_email)
     THEN /\ resp' = Reply("create_project", HTTP_400, "This email or phone is already associated with an existing client. Choose that client or update the details.")
          /\ UNCHANGED <<projects, categories, clients, settings>>
     ELSE IF \E i, j \in DOMAIN request.categories :
                i # j /\ request.categories[i].name = request.categories[j].name
     THEN \* uq_categories_project_name fails at commit: the session is rolled back
          /\ resp' = Reply("create_project", HTTP_500, "IntegrityError")
          /\ UNCHANGED <<projects, categories, clients, settings>>
     ELSE LET incoming == IF request.categories # <<>> THEN request.categories
                          ELSE DefaultCategoryTemplates
          IN /\ FreeProjectIds # {}
             /\ Cardinality(FreeCategoryIds) >= Len(incoming)
             /\ Truthy(request.client_id) \/ FreeClientIds # {}
             /\ LET project_id == CHOOSE p \in FreeProjectIds : TRUE
                    client_id == IF Truthy(request.client_id) THEN request.client_id
                                 ELSE CHOOSE k \in FreeClientIds : TRUE
                    client == IF Truthy(request.client_id) THEN clients[client_id]
                              ELSE [studio_id |-> u.studio_id,
                                    email |-> LowerEmail(request.client_email),
                                    total_projects |-> 0]
                    ids == CHOOSE f \in [1..Len(incoming) -> FreeCategoryIds] :
                              \A i, j \in 1..Len(incoming) : f[i] = f[j] => i = j
                    row(index) ==
                      [project_id |-> project_id,
                       name |-> incoming[index].name,
                       is_default |-> incoming[index].is_default,
                       rowid |-> LastCategoryRowid + index,
                       order_index |-> IF incoming[index].order_index # 0
                                       THEN incoming[index].order_index ELSE index,
                       image_count |-> 0]
                IN /\ projects' = [projects EXCEPT ![project_id] =
                         [studio_id |-> u.studio_id, client_id |-> client_id,
                          total_images |-> 0, storage_used_bytes |-> 0, total_comments |-> 0]]
                   /\ settings' = settings \cup {project_id}
                   /\ categories' =
                        [c \in DOMAIN categories |->
                           IF \E i \in 1..Len(incoming) : ids[i] = c
                           THEN row(CHOOSE i \in 1..Len(incoming) : ids[i] = c)
                           ELSE categories[c]]
                   /\ clients' = [clients EXCEPT ![client_id] =
                         [client EXCEPT !.total_projects = @ + 1]]
                   /\ resp' = [Reply("create_project", 201, "") EXCEPT !.key = <<project_id>>]

\* db.delete(project): the relationships of Project (settings, categories,
\* images) and of Image (versions, comments) cascade; the client row is not
\* touched and no file is removed.
DeleteProject(u, p) ==
  /\ UNCHANGED <<files, streams, jsonVars, calls, initiated, nextImageId, nextCommentId, clients>>
  /\ IF ~ProjectExists(p)
     THEN /\ resp' = Reply("delete_project", HTTP_404, "Project not found")
          /\ UNCHANGED <<projects, categories, images, versions, comments, settings>>
     ELSE IF u.role = "client" \/ u.studio_id # projects[p].studio_id
     THEN /\ resp' = Reply("delete_project", HTTP_403, "Not authorized to delete this project")
          /\ UNCHANGED <<projects, categories, images, versions, comments, settings>>
     ELSE LET gone == {i.id : i \in {j \in images : j.project_id = p}}
          IN /\ projects' = [projects EXCEPT ![p] = NoProject]
             /\ settings' = settings \ {p}
             /\ categories' = [c \in DOMAIN categories |->
                                 IF categories[c].project_id = p THEN NoCategory
                                 ELSE categories[c]]
             /\ images' = {i \in images : i.project_id # p}
             /\ versions' = {v \in versions : v.image_id \notin gone}
             /\ comments' = {c \in comments : c.image_id \notin gone}
             /\ resp' = [Reply("delete_project", HTTP_204, "") EXCEPT !.key = <<p>>]

(* ------------- POST /api/projects/{project}/categories ----------------- *)
\* str.lower() on the category names that occur
LowerName(n) ==
  CASE n = "All Photos" -> "all photos"
    [] n = "Extras" -> "extras"
    [] OTHER -> n

\* .replace(" ", "-") on the lower-cased names that occur
Hyphenate(n) == IF n = "all photos" THEN "all-photos" ELSE n

\* CreateCategoryRequest: order_index 0 is None
CreateCategoryRequests ==
  [name : {"All Photos", "all-photos", "Extras"}, is_default : BOOLEAN, order_index : {0, 1}]

\* any(category.name.lower() == request.name.lower() ...)
NameTaken(p, name) ==
  \E c \in ProjectCategories(p) : LowerName(categories[c].name) = LowerName(name)

CreateProjectCategory(u, p, request) ==
  /\ UNCHANGED <<files, streams, jsonVars, calls, initiated, projects, images, versions,
                 comments, nextImageId, nextCommentId, clients, settings>>
  /\ IF ~ProjectExists(p)
     THEN /\ resp' = Reply("create_category", HTTP_404, "Project not found")
          /\ UNCHANGED categories
     ELSE IF u.role = "client" \/ u.studio_id # projects[p].studio_id
     THEN /\ resp' = Reply("create_category", HTTP_403, "Not authorized to add categories")
          /\ UNCHANGED categories
     ELSE IF NameTaken(p, request.name)
     THEN /\ resp' = Reply("create_category", HTTP_400, "Category already exists")
          /\ UNCHANGED categories
     ELSE LET name == Hyphenate(LowerName(request.name))
          IN IF \E c \in ProjectCategories(p) : categories[c].name = name
             THEN \* uq_categories_project_name fails at commit
                  /\ resp' = Reply("create_category", HTTP_500, "IntegrityError")
                  /\ UNCHANGED categories
             ELSE /\ FreeCategoryIds # {}
                  /\ LET id == CHOOSE c \in FreeCategoryIds : TRUE
                     IN categories' = [categories EXCEPT ![id] =
                          [project_id |-> p, name |-> name,
                           is_default |-> request.is_default,
                           rowid |-> LastCategoryRowid + 1,
                           order_index |-> IF request.order_index # 0
                                           THEN request.order_index
                                           ELSE Cardinality(ProjectCategories(p)) + 1,
                           image_count |-> 0]]
                  /\ resp' = [Reply("create_category", 201, "") EXCEPT !.key = <<p, name>>]

(* ---------------------- GET /api/projects/{id} ------------------------- *)
\* sorted(project.categories, key=(order_index, created_at)): the sort is
\* stable and rows are created in rowid order
CategoryKeyBefore(c, d) ==
  \/ categories[c].order_index < categories[d].order_index
  \/ /\ categories[c].order_index = categories[d].order_index
     /\ categories[c].rowid <= categories[d].rowid

DetailCategories(p) ==
  LET cs == ProjectCategories(p)
  IN [k \in 1..Cardinality(cs) |->
        CHOOSE c \in cs : Cardinality({d \in cs : CategoryKeyBefore(d, c)}) = k]

\* sorted(project.images, key=uploaded_at or created_at), as ids
DetailImages(p) ==
  LET rows == {i \in images : i.project_id = p}
  IN [k \in 1..Cardinality(rows) |->
        (CHOOSE i \in rows :
           Cardinality({j \in rows : j.uploaded_at <= i.uploaded_at}) = k).id]

\* get_project: deps.get_project finds the project, _project_detail builds
\* the answer; key holds its categories and images
GetProject(p) ==
  /\ UNCHANGED <<files, streams, sqlVars, jsonVars, calls, initiated>>
  /\ IF ~ProjectExists(p)
     THEN resp' = Reply("detail", HTTP_404, "Project not found")
     ELSE resp' = [Reply("detail", 200, "") EXCEPT
                     !.key = <<p, DetailCategories(p), DetailImages(p)>>]

(* ------------------- cleanup_corrupted_images.py ----------------------- *)
CleanupExtensions == {".jpg", ".jpeg", ".png", ".gif", ".bmp"}

\* is_valid_image_file: size, then text, then the JPEG / PNG header
IsValidImageFile(content, name) ==
  IF content.size < MinImageSize THEN FALSE
  ELSE IF ~TextOk(content) THEN FALSE
  ELSE IF Lower(name.suffix) \in {".jpg", ".jpeg"} THEN content.header = "jpeg"
  ELSE IF Lower(name.suffix) = ".png" THEN content.header = "png"
  ELSE TRUE

\* scan_all_images: the corrupted files under the uploads directory
CorruptedFiles ==
  {p \in Paths : /\ files[p] # NoFile
                 /\ Lower(p[2].suffix) \in CleanupExtensions
                 /\ ~IsValidImageFile(files[p], p[2])}

\* get_database_entries_for_files: rows whose original_filename is the
\* base name of a corrupted file
DatabaseEntriesForFiles(corrupted) ==
  {i \in images : \E p \in corrupted : i.original_filename = p[2]}

\* main() answered "yes": files removed, rows deleted over a plain sqlite3
\* connection (no foreign-key pragma, no counter update, no cascade)
CleanupCorruptedFiles ==
  LET corrupted == CorruptedFiles
      db_entries == DatabaseEntriesForFiles(corrupted)
  IN /\ files' = Unlink(corrupted)
     /\ streams' = Detach(corrupted)
     /\ images' = images \ db_entries
     /\ resp' = [Reply("cleanup", Cardinality(corrupted), "") EXCEPT
                   !.image_id = Cardinality(db_entries)]
     /\ UNCHANGED <<projects, categories, versions, comments, nextImageId, nextCommentId,
                    clients, settings, jsonVars, calls, initiated>>

(* ---------------------- POST /api/actions/batch ------------------------ *)
JsonProjectIds == {"jp1"}
ActionTypes == {"select", "favorite", "comment", "approve", "download"}
ClientActionIds == {"k1", "k2", "k3"}

\* (photo_id, project_id) pairs a client may send
Targets ==
  { [photo_id |-> "ph1", project_id |-> "jp1"],
    [photo_id |-> GhostId, project_id |-> "jp1"],
    [photo_id |-> "ph1", project_id |-> GhostId],
    [photo_id |-> NoneId, project_id |-> "jp1"] }

\* payload: the boolean under "selected" / "favorite" / "approved" and the
\* value under "commentText" ("#int" is a JSON number, not a string)
Payloads ==
  { [flag |-> TRUE, text |-> "hi"],
    [flag |-> FALSE, text |-> "  "],
    [flag |-> TRUE, text |-> "#int"] }

BatchActions ==
  { [client_action_id |-> k, action_type |-> t, photo_id |-> g.photo_id,
     project_id |-> g.project_id, payload |-> pl] :
       k \in ClientActionIds, t \in ActionTypes, g \in Targets, pl \in Payloads }

DuplicateReason == "Duplicate client_action_id in batch"

FailedReason(t) ==
  CASE t = "select" -> "Failed to process select action"
    [] t = "favorite" -> "Failed to process favorite action"
    [] t = "comment" -> "Failed to process comment action"
    [] t = "approve" -> "Failed to process approve action"
    [] OTHER -> "Failed to process download action"

\* str.strip() on the comment texts that occur
Strip(t) == IF t = "  " THEN "" ELSE t

Contains(seq, x) == \E i \in DOMAIN seq : seq[i] = x

\* list.remove(x): drops the first occurrence
RemoveFirst(seq, x) ==
  LET k == CHOOSE i \in DOMAIN seq : seq[i] = x /\ \A j \in 1..(i-1) : seq[j] # x
  IN [i \in 1..(Len(seq) - 1) |-> IF i < k THEN seq[i] ELSE seq[i+1]]

\* DataManager.get_project_by_id(...) and the image of that id in it
JsonImageExists(a) == a.project_id \in JsonProjectIds /\ a.photo_id \in DOMAIN jimages

MissingIds(a) == ~Truthy(a.photo_id) \/ ~Truthy(a.project_id)

\* an update that finds the image and stores nothing
JsonUpdateNothing(a, row) == UNCHANGED <<jimages, jcomments>>

\* DataManager.update_project_image: TRUE when an image was updated
JsonUpdateImage(a, row) ==
  IF JsonImageExists(a)
  THEN /\ jimages' = [jimages EXCEPT ![a.photo_id] = row]
       /\ UNCHANGED jcomments
  ELSE UNCHANGED <<jimages, jcomments>>

\* DataManager.create_comment: always stores the comment; bumps the counter
\* of the image when the project and the image exist
JsonCreateComment(a) ==
  /\ jcomments' = Append(jcomments, [image_id |-> a.photo_id, project_id |-> a.project_id])
  /\ IF JsonImageExists(a)
     THEN jimages' = [jimages EXCEPT ![a.photo_id].comment_count = @ + 1]
     ELSE UNCHANGED jimages

\* _process_comment_action: the result it returns (an exception counts as FALSE)
CommentResult(a) ==
  IF MissingIds(a) THEN FALSE
  ELSE IF a.payload.text = "#int" THEN FALSE
  ELSE IF Strip(a.payload.text) = "" THEN FALSE
  ELSE TRUE

\* a toggle that appends without looking
ApprovedTagsAppend(tags, approved) ==
  IF approved THEN Append(tags, "approved")
  ELSE IF Contains(tags, "approved") THEN RemoveFirst(tags, "approved")
  ELSE tags

ApprovedTags(tags, approved) ==
  IF approved /\ ~Contains(tags, "approved") THEN Append(tags, "approved")
  ELSE IF ~approved /\ Contains(tags, "approved") THEN RemoveFirst(tags, "approved")
  ELSE tags

\* _process_single_action: success is the boolean it returns, with the
\* effect on the DataManager's files
ProcessSingleAction(a, success) ==
  CASE a.action_type = "select" ->
         /\ success = (~MissingIds(a) /\ JsonImageExists(a))
         /\ IF MissingIds(a) THEN UNCHANGED <<jimages, jcomments>>
            ELSE JsonUpdateImage(a, [jimages[a.photo_id] EXCEPT !.is_selected = a.payload.flag])
    [] a.action_type = "favorite" ->
         /\ success = (~MissingIds(a) /\ JsonImageExists(a))
         /\ IF MissingIds(a) THEN UNCHANGED <<jimages, jcomments>>
            ELSE JsonUpdateImage(a, [jimages[a.photo_id] EXCEPT !.is_favorite = a.payload.flag])
    [] a.action_type = "comment" ->
         /\ success = CommentResult(a)
         /\ IF CommentResult(a)
            THEN Len(jcomments) < MaxJsonComments /\ JsonCreateComment(a)
            ELSE UNCHANGED <<jimages, jcomments>>
    [] a.action_type = "approve" ->
         /\ success = (~MissingIds(a) /\ JsonImageExists(a))
         /\ IF MissingIds(a) \/ ~JsonImageExists(a) THEN UNCHANGED <<jimages, jcomments>>
            ELSE JsonUpdateImage(a, [jimages[a.photo_id] EXCEPT
                                       !.tags = ApprovedTags(@, a.payload.flag)])
    [] OTHER ->
         /\ success = TRUE
         /\ UNCHANGED <<jimages, jcomments>>

\* a test against the accepted ids only
AlreadyAccepted(a) == Contains(batch.accepted, a.client_action_id)

\* a test that never finds the id
NeverProcessed(a) == FALSE

\* `action.client_action_id in processed_actions`
AlreadyProcessed(a) == a.client_action_id \in batch.processed_actions

uploadVars == <<files, streams, sqlVars, initiated, resp, calls, steps>>

\* a request arrives: accepted, failed and processed_actions start empty
BatchBegin ==
  /\ batch.pc # "loop"
  /\ batch' = [pc |-> "loop", total |-> 0, accepted |-> <<>>, failed |-> <<>>,
               processed_actions |-> {}, processed_count |-> 0, total_count |-> 0]
  /\ UNCHANGED <<uploadVars, jimages, jcomments>>

\* one iteration of `for action in request.actions`
BatchStep(a) ==
  /\ batch.pc = "loop"
  /\ batch.total < MaxBatch
  /\ UNCHANGED uploadVars
  /\ IF AlreadyProcessed(a)
     THEN /\ batch' = [batch EXCEPT !.total = @ + 1,
                 !.failed = Append(@, [clientActionId |-> a.client_action_id,
                                       reason |-> DuplicateReason])]
          /\ UNCHANGED <<jimages, jcomments>>
     ELSE \E success \in BOOLEAN :
            /\ ProcessSingleAction(a, success)
            /\ batch' = [batch EXCEPT
                 !.total = @ + 1,
                 !.processed_actions = @ \cup {a.client_action_id},
                 !.accepted = IF success THEN Append(@, a.client_action_id) ELSE @,
                 !.failed = IF success THEN @
                            ELSE Append(@, [clientActionId |-> a.client_action_id,
                                            reason |-> FailedReason(a.action_type)])]

\* the loop is over: the response is built
BatchEnd ==
  /\ batch.pc = "loop"
  /\ batch' = [batch EXCEPT !.pc = "done",
                            !.processed_count = Len(batch.accepted),
                            !.total_count = batch.total]
  /\ UNCHANGED <<uploadVars, jimages, jcomments>>

(* --------------------------- specifications ---------------------------- *)
\* the model follows every run of at most MaxSteps steps
Tick == steps < MaxSteps /\ steps' = steps + 1

Initiate == Tick /\ \E u \in Callers, p \in ProjectIds \cup {GhostId}, ds \in DescriptorLists :
              InitiateUploads(u, p, ds)

Open == Tick /\ \E u \in Callers, s \in 1..MaxStreams, p \in {"p1", "p2", GhostId},
                    t \in StreamTargets :
          StreamOpen(u, s, p, t.category_id, t.file_name)

Chunk == Tick /\ \E s \in 1..MaxStreams, bytes \in ChunkContents : StreamChunk(s, bytes)

Finish == Tick /\ \E s \in 1..MaxStreams, outcome \in {"eof", "error"} : StreamFinish(s, outcome)

Complete == Tick /\ \E u \in Callers, p \in ProjectIds \cup {GhostId},
               requested \in {NoneId, "c1", "c3"},
               raw \in {<<JpgName>>, <<TxtName>>}, original \in Names :
              CompleteUpload(u, p, requested, raw, original)

Patch == Tick /\ \E u \in Users, image_id \in 1..MaxImages,
            category_id \in {NoneId, "c1", "c2", "c3"} :
           UpdateProjectImage(u, image_id, category_id)

Comment == Tick /\ \E u \in Users, image_id \in 1..MaxImages, parent_id \in 0..MaxComments :
             CreateImageComment(u, image_id, parent_id)

Cleanup == Tick /\ CleanupCorruptedFiles

Batch == BatchBegin \/ (\E a \in BatchActions : BatchStep(a)) \/ BatchEnd

Next == Open \/ Chunk \/ Finish \/ Complete \/ Patch \/ Comment \/ Cleanup

Spec == Init /\ [][Next]_vars

UploadNext == Initiate \/ Open \/ Chunk \/ Finish \/ Complete

UploadSpec == Init /\ [][UploadNext]_vars

BatchSpec == Init /\ [][Batch]_vars

\* Uploads into category c1 of project p1 next to batches whose actions name
\* the images the upload pipeline has created.
PhotoIdOf(n) == ToString(n)

SyncActions ==
  { [client_action_id |-> k, action_type |-> t, photo_id |-> PhotoIdOf(n),
     project_id |-> "p1", payload |-> [flag |-> TRUE, text |-> "hi"]] :
       k \in {"k1", "k2"}, t \in {"select", "comment"}, n \in 1..MaxImages }

SyncOpen == Tick /\ \E u \in Callers, s \in 1..MaxStreams :
              StreamOpen(u, s, "p1", "c1", <<JpgName>>)

SyncComplete == Tick /\ \E u \in Callers, original \in Names :
                  CompleteUpload(u, "p1", "c1", <<JpgName>>, original)

SyncBatch == BatchBegin \/ (\E a \in SyncActions : BatchStep(a)) \/ BatchEnd

SyncNext == SyncOpen \/ Chunk \/ Finish \/ SyncComplete \/ SyncBatch

SyncSpec == Init /\ [][SyncNext]_vars

\* project creation and deletion next to the upload of images into p1, the
\* comments on them and the cleanup script
\* the address of a request that names its client is never looked at
PCreate == Tick /\ \E u \in Users,
                      request \in {r \in CreateProjectRequests :
                                     Truthy(r.client_id) => r.client_email = "n@x"} :
             CreateProject(u, request)

PDelete == Tick /\ \E u \in Users, p \in ProjectIds \cup NewProjectIds \cup {GhostId} :
             DeleteProject(u, p)

PComment == Tick /\ \E u \in Callers, image_id \in 1..MaxImages :
              CreateImageComment(u, image_id, 0)

ProjectNext ==
  PCreate \/ PDelete \/ SyncOpen \/ Chunk \/ Finish \/ SyncComplete \/ PComment \/ Cleanup

ProjectSpec == Init /\ [][ProjectNext]_vars

\* reading the project detail next to project creation and uploads into p1
Detail == Tick /\ \E p \in ProjectIds \cup NewProjectIds \cup {GhostId} : GetProject(p)

DetailNext == PCreate \/ SyncOpen \/ Chunk \/ Finish \/ SyncComplete \/ Detail

DetailSpec == Init /\ [][DetailNext]_vars

\* two request slots: uploads into p1/c1 and comments, each handler in two steps
RaceCompleteLoad == Tick /\ \E k \in 1..MaxCalls, original \in Names :
                      CompleteLoad(k, CHOOSE u \in Users : u.id = "u1", "p1", "c1",
                                   <<JpgName>>, original)

RaceCompleteCommit == \E k \in 1..MaxCalls : CompleteCommit(k) /\ UNCHANGED steps

RaceCommentLoad == Tick /\ \E k \in 1..MaxCalls, u \in Callers, image_id \in 1..MaxImages :
                     CommentLoad(k, u, image_id, 0)

RaceCommentCommit == \E k \in 1..MaxCalls : CommentCommit(k) /\ UNCHANGED steps

RaceNext ==
  \/ SyncOpen \/ Chunk \/ Finish
  \/ RaceCompleteLoad \/ RaceCompleteCommit \/ RaceCommentLoad \/ RaceCommentCommit

RaceSpec == Init /\ [][RaceNext]_vars

\* project creation next to category creation
PCategory == Tick /\ \E u \in Users, p \in {"p1", "p4", GhostId},
                        request \in {r \in CreateCategoryRequests :
                                       r.order_index = 1 => r.is_default} :
               CreateProjectCategory(u, p, request)

CategoryNext == PCreate \/ PCategory

CategorySpec == Init /\ [][CategoryNext]_vars

\* batches of select, favorite and approve actions on an image that exists or
\* does not
FlagActions ==
  { [client_action_id |-> k, action_type |-> t, photo_id |-> ph, project_id |-> "jp1",
     payload |-> [flag |-> f, text |-> "hi"]] :
       k \in ClientActionIds, t \in {"select", "favorite", "approve"},
       ph \in {"ph1", GhostId}, f \in BOOLEAN }

FlagBatch == BatchBegin \/ (\E a \in FlagActions : BatchStep(a)) \/ BatchEnd

FlagSpec == Init /\ [][FlagBatch]_vars

\* the validators applied to one stored file: resp.key holds the file name
\* and the content, then the verdicts of the two callers of the validator
ValidateNames ==
  {[stem |-> "a", suffix |-> x] :
     x \in {".JPG", ".jpeg", ".png", ".gif", ".bmp", ".webp", ".tiff", ".tif", ".txt"}}

\* JPEG and PNG signatures are not valid UTF-8; a header of fewer than 20
\* bytes belongs to a file of fewer than 20 bytes
ValidateContents ==
  {c \in [size : {0, 10, 99, 100, 999, 1000}, header : {"short", "jpeg", "png", "gif87a",
           "gif89a", "bmp", "webp", "other"},
          text : {"binary", "phrase", "printable", "unprintable"}] :
     /\ (c.header \in {"jpeg", "png"} => c.text = "binary")
     /\ (c.header = "short" <=> c.size = 0)
     /\ (c.size = 0 => c.text = "printable")}

ValidateInit ==
  /\ InitStores
  /\ resp \in {[NoResp EXCEPT !.op = "file", !.key = <<name, content>>] :
                 name \in ValidateNames, content \in ValidateContents}

\* the integrity check of complete_upload on a stored file
ValidateStored ==
  /\ resp.op = "file"
  /\ LET name == resp.key[1]
         content == resp.key[2]
     IN resp' = [resp EXCEPT
                   !.op = "validate_stored",
                   !.status = IF IsImageFile(name) /\ ~ValidateImageFile(content, name)
                              THEN HTTP_400 ELSE 200]
  /\ UNCHANGED <<files, streams, sqlVars, jsonVars, calls, initiated, steps>>

\* the checks of upload_file_stream once the body has been written
ValidateStreamed ==
  /\ resp.op = "file"
  /\ LET name == resp.key[1]
         content == resp.key[2]
     IN resp' = [resp EXCEPT
                   !.op = "validate_streamed",
                   !.status = IF \/ content.size = 0
                                 \/ IsImageFile(name) /\ ~ValidateImageFile(content, name)
                              THEN HTTP_500 ELSE HTTP_204]
  /\ UNCHANGED <<files, streams, sqlVars, jsonVars, calls, initiated, steps>>

ValidateNext == ValidateStored \/ ValidateStreamed

ValidateSpec == ValidateInit /\ [][ValidateNext]_vars

(* ------------------------------ claims --------------------------------- *)
\* the requests Complete is called with
CompleteRequests ==
  [u : Callers, p : ProjectIds \cup {GhostId}, requested : {NoneId, "c1", "c3"},
   raw : {<<JpgName>>, <<TxtName>>}, original : Names]

\* C1: when a studio user's Complete directly follows a successful Complete
\* for the same (project, category, original file name) and the stored file
\* is present and valid, it answers already_exists = TRUE with the image id
\* of the first call, and the Image rows, the version rows, the project's
\* total_images and storage_used_bytes and the category's image_count are
\* unchanged.
C1_CompleteTwice ==
  [][(resp.op = "complete" /\ resp.status = 200 /\ resp'.op = "complete") =>
     \A r \in CompleteRequests :
       LET c == CompleteCategory(r.p, r.requested)
           path == StoredPath(r.p, r.requested, r.raw)
       IN (/\ r.u.role # "client"
           /\ resp.key = <<r.p, c, r.original>>
           /\ FileAt(path) # NoFile
           /\ ValidateImageFile(FileAt(path), path[2])
           /\ CompleteUpload(r.u, r.p, r.requested, r.raw, r.original))
          => /\ resp'.status = 200
             /\ resp'.already_exists
             /\ resp'.image_id = resp.image_id
             /\ UNCHANGED <<images, versions, projects, categories>>]_vars

\* the second of two Complete calls in a row has answered already_exists
C1_Witness ==
  /\ resp.op = "complete" /\ resp.status = 200 /\ resp.already_exists
  /\ steps = 4
  /\ Cardinality(images) = 1

\* C2: every project's total_images is the number of its Image rows and
\* every category's image_count is the number of Image rows that reference
\* it, in every state reached by Complete, PATCH and the row deletion of the
\* corrupted-image cleanup.
C2_CountersMatchRows ==
  /\ \A p \in ProjectIds :
        projects[p].total_images = Cardinality({i \in images : i.project_id = p})
  /\ \A c \in CategoryIds :
        categories[c].image_count = Cardinality({i \in images : i.category_id = c})

\* C3: Complete, called by a studio user for a stored file whose name ends
\* in .jpg/.jpeg and whose first bytes are not FF D8 FF, answers 400
\* "Uploaded file is corrupted or invalid", creates no Image or ImageVersion
\* row, changes no project or category counter, and removes the file.
C3_CorruptJpegRejected ==
  [][(resp'.op = "complete" /\ \E q \in Paths : files[q].header \notin {"absent", "jpeg"}) =>
     \A p \in ProjectIds, requested \in {NoneId, "c1", "c3"} :
       LET c == CompleteCategory(p, requested)
       IN c \in CategoryIds =>
          \A raw \in {<<JpgName>>, <<TxtName>>} :
            LET path == <<c, SanitizeSegment(raw)>>
            IN (/\ FileAt(path) # NoFile
                /\ Lower(path[2].suffix) \in {".jpg", ".jpeg"}
                /\ FileAt(path).header # "jpeg")
               => \A u \in Callers, original \in Names :
                    (u.role # "client" /\ CompleteUpload(u, p, requested, raw, original))
                    => /\ resp'.status = HTTP_400
                       /\ resp'.detail = "Uploaded file is corrupted or invalid"
                       /\ UNCHANGED <<images, versions, projects, categories>>
                       /\ files'[path] = NoFile]_vars

\* Complete has rejected and removed the file a stream had written a chunk
\* with a wrong header to
C3_Witness ==
  /\ resp.op = "complete" /\ resp.status = HTTP_400
  /\ resp.detail = "Uploaded file is corrupted or invalid"
  /\ \E s \in 1..MaxStreams :
        /\ streams[s].st = "open" /\ streams[s].wrote /\ ~streams[s].attached
        /\ files[streams[s].path] = NoFile

\* a step of the batch loop: one more input action has been handled
BatchLoopStep == batch.pc = "loop" /\ batch'.pc = "loop" /\ batch'.total = batch.total + 1

\* the ids of the actions of the running batch handled so far
OccurredIds ==
  {batch.accepted[i] : i \in DOMAIN batch.accepted} \cup
  {batch.failed[i].clientActionId : i \in DOMAIN batch.failed}

\* the id of the action a loop step has just handled
HandledId ==
  IF Len(batch'.accepted) > Len(batch.accepted)
  THEN batch'.accepted[Len(batch'.accepted)]
  ELSE batch'.failed[Len(batch'.failed)].clientActionId

\* the outcome entries a loop step may add, given the reason of a duplicate
DuplicateRule(reason) ==
  BatchLoopStep =>
    /\ Len(batch'.accepted) + Len(batch'.failed) = Len(batch.accepted) + Len(batch.failed) + 1
    /\ \/ batch'.accepted = batch.accepted
       \/ batch'.failed = batch.failed
    /\ IF HandledId \in OccurredIds
       THEN /\ batch'.accepted = batch.accepted
            /\ batch'.failed = Append(batch.failed,
                                  [clientActionId |-> HandledId, reason |-> reason])
            /\ UNCHANGED <<jimages, jcomments>>
       ELSE \/ batch'.accepted = Append(batch.accepted, HandledId)
            \/ \E t \in ActionTypes :
                 batch'.failed = Append(batch.failed,
                     [clientActionId |-> HandledId, reason |-> FailedReason(t)])

C5_FailuresReported ==
  [][/\ BatchLoopStep =>
          \A a \in BatchActions :
            (/\ a.client_action_id = HandledId
             /\ a.client_action_id \notin OccurredIds
             /\ a.action_type # "download"
             /\ ~JsonImageExists(a)
             /\ BatchStep(a))
            => /\ batch'.accepted = batch.accepted
               /\ batch'.failed = Append(batch.failed,
                     [clientActionId |-> a.client_action_id,
                      reason |-> FailedReason(a.action_type)])
     /\ (batch.pc = "loop" /\ batch'.pc = "done") =>
          /\ batch'.processed_count = Len(batch.accepted)
          /\ batch'.total_count = batch.total
          /\ batch'.accepted = batch.accepted /\ batch'.failed = batch.failed]_vars

\* every image's category is a category of the image's project
CategoryOfOwnProject ==
  \A i \in images :
    i.category_id \in CategoryIds /\ categories[i.category_id].project_id = i.project_id

\* C6: a PATCH of an image with a category id that is not a category of the
\* image's own project fails (400 "Category not found" for a caller allowed
\* to update the image) and leaves the image rows and every counter
\* unchanged; in every state reached each image's category_id names a
\* category of the image's project.
C6_ForeignCategoryRejected ==
  [][/\ (resp'.op = "patch") =>
          \A u \in Users, image_id \in 1..MaxImages, category_id \in CategoryIds :
            (/\ \E i \in ImageById(image_id) :
                    categories[category_id].project_id # i.project_id
             /\ UpdateProjectImage(u, image_id, category_id))
            => /\ resp'.status \in {HTTP_400, HTTP_403}
               /\ (/\ u.role # "client"
                   /\ \A i \in ImageById(image_id) :
                         u.studio_id = projects[i.project_id].studio_id) =>
                     (resp'.status = HTTP_400 /\ resp'.detail = "Category not found")
               /\ UNCHANGED <<images, projects, categories>>
     /\ CategoryOfOwnProject']_vars

\* a PATCH naming a category of another project has been refused
C6_Witness ==
  /\ resp.op = "patch" /\ resp.status = HTTP_400 /\ resp.detail = "Category not found"
  /\ images # {}

\* C7: the comment endpoint, creating a comment on an image with or without
\* a parent_id, adds exactly one Comment row and raises that image's
\* comment_count and its project's total_comments by exactly 1, leaving the
\* counters of every other image and project unchanged.
C7_CommentCounted ==
  [][(resp'.op = "comment" /\ resp'.status = 201) =>
     \A u \in Callers, image_id \in 1..MaxImages, parent_id \in 0..MaxComments :
       CreateImageComment(u, image_id, parent_id) =>
         \E image \in ImageById(image_id) :
           /\ Cardinality(comments') = Cardinality(comments) + 1
           /\ \E row \in comments' \ comments :
                 /\ comments' = comments \cup {row}
                 /\ row.image_id = image_id /\ row.parent_id = parent_id
           /\ \E after \in images' :
                 /\ after.id = image_id
                 /\ after.comment_count = image.comment_count + 1
                 /\ images' \ {after} = images \ {image}
           /\ projects'[image.project_id].total_comments =
                 projects[image.project_id].total_comments + 1
           /\ \A p \in ProjectIds \ {image.project_id} : projects'[p] = projects[p]
           /\ projects'[image.project_id] =
                 [projects[image.project_id] EXCEPT !.total_comments = @ + 1]]_vars

\* a reply to a comment has been created on one of two images
C7_Witness ==
  /\ resp.op = "comment" /\ resp.status = 201
  /\ Cardinality(images) = 2
  /\ \E row \in comments : row.parent_id # 0 /\ row.image_id = resp.image_id
  /\ \E i \in images : i.id = resp.image_id /\ i.comment_count = 2

\* C8 (as stated): an Image row is committed only after its upload was
\* initiated: the stored path of every Image row is a target Initiate has
\* answered with.
C8_CommittedWasInitiated == \A i \in images : i.s3_key_original \in initiated

\* C8 (amended): an upload moves through STREAMED, VALIDATED, COMMITTED in
\* that order and Initiate is no precondition: a file appears at a path only
\* when a Stream call opens it; an Image row is committed only when the file
\* at its path is present and passes validation in the committing Complete;
\* a rejection by Complete or by Stream removes the file, so a rejected
\* upload is never committed without a new stream.
C8_StreamedValidatedCommitted ==
  [][/\ \A q \in Paths :
          (files[q] = NoFile /\ files'[q] # NoFile) =>
            \E s \in 1..MaxStreams :
              /\ streams[s].st = "idle"
              /\ streams'[s].st = "open" /\ streams'[s].path = q
     /\ \A i \in images' \ images :
          /\ resp'.op = "complete" /\ resp'.status = 200 /\ resp'.image_id = i.id
          /\ files[i.s3_key_original] # NoFile
          /\ ValidateImageFile(files[i.s3_key_original], i.s3_key_original[2])
          /\ files' = files
     /\ (resp'.op = "complete" /\ resp'.detail = "Uploaded file is corrupted or invalid") =>
          /\ images' = images
          /\ \E q \in Paths : files[q] # NoFile /\ files' = [files EXCEPT ![q] = NoFile]
     /\ (resp'.op = "stream" /\ resp'.status = HTTP_500) =>
          /\ images' = images
          /\ \E s \in 1..MaxStreams :
               streams[s].st = "open" /\ files'[streams[s].path] = NoFile]_vars

\* an Image row has been committed for a streamed, valid file that no
\* Initiate call has named
C8_Witness ==
  /\ resp.op = "complete" /\ resp.status = 200 /\ ~resp.already_exists
  /\ \E i \in images :
        /\ i.id = resp.image_id
        /\ i.s3_key_original \notin initiated
        /\ files[i.s3_key_original] # NoFile

\* C9: in every state reached by Initiate, Stream and Complete calls, every
\* Image row created by Complete has its backing file present in storage.
C9_RowsHaveFiles == \A i \in images : files[i.s3_key_original] # NoFile

\* C10: whenever the stream handler fails after it has opened the
\* destination (a failed read or write, an empty body, or a stored image
\* that fails validation), no file is at the destination path when it
\* returns.
C10_FailedStreamLeavesNoFile ==
  [][(resp'.op = "stream" /\ resp'.status = HTTP_500) =>
     \A s \in 1..MaxStreams, outcome \in {"eof", "error"} :
       StreamFinish(s, outcome) => files'[streams[s].path] = NoFile]_vars

\* a stream whose body was written has failed, and no file is left
C10_Witness ==
  /\ resp.op = "stream" /\ resp.status = HTTP_500
  /\ resp.detail = "Failed to write file"
  /\ steps = 3
  /\ \A q \in Paths : files[q] = NoFile

\* C11: a stream that delivers zero bytes is rejected as a client error
\* (400, "Uploaded file is empty"), a kind distinct from the one of a
\* storage write failure (500), and the empty file is removed.
C11_EmptyUploadIsClientError ==
  (resp.op = "stream" /\ resp.detail = "Uploaded file is empty") =>
     resp.status = HTTP_400

\* the category the claim's rule names for project p: the explicit id when
\* it is a category of p ("error" otherwise), else the default category of
\* p, else its first category, else none
RuleCategory(p, requested) ==
  LET cs == {c \in CategoryIds : categories[c].project_id = p}
      ds == {c \in cs : categories[c].is_default}
      first(S) == CHOOSE c \in S : \A d \in S : categories[c].rowid <= categories[d].rowid
  IN IF requested # NoneId THEN (IF requested \in cs THEN requested ELSE "error")
     ELSE IF ds # {} THEN first(ds)
     ELSE IF cs # {} THEN first(cs)
     ELSE NoneId

C13_CommentNeedsImage ==
  [][BatchLoopStep =>
     \A a \in BatchActions :
       (/\ a.action_type = "comment"
        /\ a.client_action_id = HandledId
        /\ a.client_action_id \notin OccurredIds
        /\ BatchStep(a))
       => IF ~JsonImageExists(a) \/ a.payload.text = "#int" \/ Strip(a.payload.text) = ""
          THEN /\ UNCHANGED <<jimages, jcomments>>
               /\ batch'.accepted = batch.accepted
          ELSE /\ Len(jcomments') = Len(jcomments) + 1
               /\ jimages'[a.photo_id].comment_count = jimages[a.photo_id].comment_count + 1
               /\ batch'.accepted = Append(batch.accepted, a.client_action_id)]_vars

\* the image row a read through the project image endpoints returns for
\* the photo id of a batch action
ReadImage(a) == {i \in images : PhotoIdOf(i.id) = a.photo_id /\ i.project_id = a.project_id}

\* C14: the batch endpoint works on the store the upload pipeline writes and
\* the project image endpoints read: an image created by Complete can be
\* the target of a batch action (a select on it is accepted), and after an
\* accepted batch comment on it the image read back carries the raised
\* comment_count.
C14_BatchSeesUploadedImages ==
  [][BatchLoopStep =>
     \A a \in SyncActions :
       (/\ a.client_action_id = HandledId
        /\ a.client_action_id \notin OccurredIds
        /\ ReadImage(a) # {}
        /\ BatchStep(a))
       => /\ batch'.accepted = Append(batch.accepted, a.client_action_id)
          /\ a.action_type = "comment" =>
                \A i \in ReadImage(a) :
                  \E j \in images' : j.id = i.id /\ j.comment_count = i.comment_count + 1]_vars

\* C15: no request of a user of one studio returns or mutates an entity of
\* another studio; in particular a comment creation on an image whose
\* project belongs to another studio is refused and changes no row.
C15_StudioIsolation ==
  [][(resp'.op = "comment") =>
     \A u \in Users, image_id \in 1..MaxImages, parent_id \in 0..MaxComments :
       (/\ \E i \in ImageById(image_id) : projects[i.project_id].studio_id # u.studio_id
        /\ CreateImageComment(u, image_id, parent_id))
       => /\ resp'.status \in {HTTP_403, HTTP_404}
          /\ UNCHANGED <<images, comments, projects>>]_vars

\* C16: every request of a client-role user to initiate, stream or complete
\* an upload into an existing project is refused with 403 and leaves the
\* database and the upload storage unchanged.
C16_ClientCannotUpload ==
  [][\A u \in {v \in Callers : v.role = "client"} :
       /\ (resp'.op = "initiate") =>
            \A p \in ProjectIds, ds \in DescriptorLists :
              InitiateUploads(u, p, ds) => resp'.status = HTTP_403
       /\ (resp'.op = "complete") =>
            \A r \in {q \in CompleteRequests : q.u = u /\ q.p \in ProjectIds} :
              CompleteUpload(u, r.p, r.requested, r.raw, r.original) =>
                (resp'.status = HTTP_403 /\ UNCHANGED <<files, sqlVars>>)
       /\ (resp'.op \in {"stream", "stream_open"}) =>
            \A s \in 1..MaxStreams, p \in {"p1", "p2"}, t \in StreamTargets :
              StreamOpen(u, s, p, t.category_id, t.file_name) =>
                (resp'.status = HTTP_403 /\ UNCHANGED <<files, sqlVars>>)]_vars

\* C17: in every state each project_settings, category, image, image
\* version and comment row references a parent row that exists; so none of
\* them outlives its project.
C17_NoOrphanRows ==
  /\ \A p \in settings : ProjectExists(p)
  /\ \A c \in DOMAIN categories :
        categories[c] # NoCategory => ProjectExists(categories[c].project_id)
  /\ \A i \in images :
        /\ ProjectExists(i.project_id)
        /\ categories[i.category_id].project_id = i.project_id
  /\ \A v \in versions : \E i \in images : i.id = v.image_id
  /\ \A c \in comments : \E i \in images : i.id = c.image_id

\* C18: each client's total_projects equals the number of project rows
\* whose client_id is that client.
C18_TotalProjectsMatchesRows ==
  \A k \in DOMAIN clients :
    clients[k] # NoClient =>
      clients[k].total_projects =
        Cardinality({p \in DOMAIN projects : ProjectExists(p) /\ projects[p].client_id = k})

\* C19: a project detail answer lists the categories of the project sorted
\* by order_index, ties broken by creation time, and its images newest first.
C19_DetailSorted ==
  (resp.op = "detail" /\ resp.status = 200) =>
    LET p == resp.key[1]
        cats == resp.key[2]
        imgs == resp.key[3]
    IN /\ {cats[k] : k \in DOMAIN cats} = ProjectCategories(p)
       /\ \A k, m \in DOMAIN cats : k < m =>
             \/ categories[cats[k]].order_index < categories[cats[m]].order_index
             \/ /\ categories[cats[k]].order_index = categories[cats[m]].order_index
                /\ categories[cats[k]].rowid < categories[cats[m]].rowid
       /\ {imgs[k] : k \in DOMAIN imgs} = {i.id : i \in {j \in images : j.project_id = p}}
       /\ \A k, m \in DOMAIN imgs : k < m =>
             \A i, j \in images :
               (i.id = imgs[k] /\ j.id = imgs[m]) => i.uploaded_at >= j.uploaded_at

\* C20: when a studio user's Initiate for an existing project names an
\* invalid category for one file and a valid one for another, the request
\* still succeeds and every file with a valid category receives its target URL.
C20_InitiateIsolatesFailures ==
  [][(resp'.op = "initiate") =>
       \A u \in {v \in Callers : v.role # "client"}, p \in ProjectIds, ds \in DescriptorLists :
         (/\ InitiateUploads(u, p, ds)
          /\ \E i \in DOMAIN ds : ResolveCategoryId(p, ds[i].category_id) \in CategoryIds) =>
           /\ resp'.status = 200
           /\ \A i \in DOMAIN ds :
                 ResolveCategoryId(p, ds[i].category_id) \in CategoryIds =>
                   <<ResolveCategoryId(p, ds[i].category_id), SanitizeSegment(ds[i].file_name)>>
                     \in initiated']_vars

NoCallInFlight == \A k \in 1..MaxCalls : calls[k].pc = "idle"

\* C21: once the Complete requests that ran side by side have all finished,
\* at most one image row exists per (project, category, original file name).
C21_OneRowPerTriple ==
  NoCallInFlight =>
    \A i, j \in images :
      (/\ i.project_id = j.project_id
       /\ i.category_id = j.category_id
       /\ i.original_filename = j.original_filename) => i = j

RECURSIVE SumSizes(_)
SumSizes(rows) ==
  IF rows = {} THEN 0
  ELSE LET i == CHOOSE r \in rows : TRUE
       IN i.file_size_bytes + SumSizes(rows \ {i})

\* C22: once the requests that ran side by side have all committed, the
\* counters of every project, category and image equal the values recomputed
\* from the image and comment rows.
C22_NoLostIncrement ==
  NoCallInFlight =>
    /\ \A p \in ProjectIds :
          LET rows == {i \in images : i.project_id = p}
          IN /\ projects[p].total_images = Cardinality(rows)
             /\ projects[p].storage_used_bytes = SumSizes(rows)
             /\ projects[p].total_comments =
                  Cardinality({c \in comments : \E i \in rows : i.id = c.image_id})
    /\ \A c \in CategoryIds :
          categories[c].image_count = Cardinality({i \in images : i.category_id = c})
    /\ \A i \in images :
          i.comment_count = Cardinality({c \in comments : c.image_id = i.id})

\* the header is the signature of the claimed extension, for the formats
\* that have one
MagicMatches(name, content) ==
  LET x == Lower(name.suffix)
  IN /\ (x \in {".jpg", ".jpeg"} => content.header = "jpeg")
     /\ (x = ".png" => content.header = "png")
     /\ (x = ".gif" => content.header \in {"gif87a", "gif89a"})
     /\ (x = ".bmp" => content.header = "bmp")
     /\ (x = ".webp" => content.header = "webp")

ImageSuffixes == {".jpg", ".jpeg", ".png", ".gif", ".bmp", ".webp", ".tiff"}

Validated == resp.op \in {"validate_stored", "validate_streamed"}

Rejected == resp.status \in {HTTP_400, HTTP_500}

C24_AppliedInOrder ==
  [][/\ BatchLoopStep =>
          IF batch'.accepted = batch.accepted
          THEN UNCHANGED <<jimages, jcomments>>
          ELSE \A a \in {x \in FlagActions : x.client_action_id = HandledId /\
                                             x.action_type \in {"select", "favorite"}} :
                 BatchStep(a) =>
                   /\ a.photo_id \in DOMAIN jimages
                   /\ jimages' = [jimages EXCEPT ![a.photo_id] =
                         IF a.action_type = "select"
                         THEN [@ EXCEPT !.is_selected = a.payload.flag]
                         ELSE [@ EXCEPT !.is_favorite = a.payload.flag]]
     /\ (batch.pc = "loop" /\ batch'.pc = "done") => UNCHANGED <<jimages, jcomments>>]_vars

\* a batch of two accepted actions and a failed select has been answered and
\* the image is selected
C24_Witness ==
  /\ batch.pc = "done"
  /\ Len(batch.accepted) = 2
  /\ Len(batch.failed) = 1
  /\ batch.failed[1].reason = "Failed to process select action"
  /\ jimages["ph1"].is_selected
  /\ ~jimages["ph1"].is_favorite
  /\ jimages["ph1"].tags = <<"portrait">>
  /\ jcomments = <<>>

\* the tags of a list other than "approved", in order
OtherTags(tags) == SelectSeq(tags, LAMBDA x : x # "approved")

CountApproved(tags) == Cardinality({i \in DOMAIN tags : tags[i] = "approved"})

\* C25: an approve action on an image that exists leaves the image with
\* "approved" exactly once when its flag is true and without it when false,
\* never touches the other tags or anything else, and changes nothing when
\* the image already is as asked; on an image that does not exist it fails
\* and changes nothing.
C25_ApproveIdempotent ==
  [][BatchLoopStep =>
       \A a \in {x \in FlagActions : x.client_action_id = HandledId /\
                                      x.action_type = "approve"} :
         (a.client_action_id \notin OccurredIds /\ BatchStep(a)) =>
           IF a.photo_id \in DOMAIN jimages
           THEN LET before == jimages[a.photo_id].tags
                    after == jimages'[a.photo_id].tags
                IN /\ batch'.accepted = Append(batch.accepted, a.client_action_id)
                   /\ CountApproved(after) = IF a.payload.flag THEN 1 ELSE 0
                   /\ OtherTags(after) = OtherTags(before)
                   /\ jimages' = [jimages EXCEPT ![a.photo_id].tags = after]
                   /\ (CountApproved(before) = CountApproved(after)) => jimages' = jimages
                   /\ UNCHANGED jcomments
           ELSE /\ batch'.accepted = batch.accepted
                /\ UNCHANGED <<jimages, jcomments>>]_vars

\* a batch with at least two accepted actions has been answered and the
\* image carries "approved" once, after its own tag
C25_Witness ==
  /\ batch.pc = "done"
  /\ Len(batch.accepted) >= 2
  /\ jimages["ph1"].tags = <<"portrait", "approved">>

\* C26: a request to create a category whose stored name, the requested name
\* lower-cased with spaces replaced by hyphens, is the name of a category of
\* the project is answered 400 "Category already exists" and adds no row.
C26_DuplicateNameRejected ==
  [][(resp'.op = "create_category") =>
       \A u \in {v \in Callers : v.role # "client"}, p \in {"p1", "p4"},
          request \in CreateCategoryRequests :
         (/\ ProjectExists(p)
          /\ \E c \in ProjectCategories(p) :
                categories[c].name = Hyphenate(LowerName(request.name))
          /\ CreateProjectCategory(u, p, request))
         => /\ resp'.status = HTTP_400
            /\ resp'.detail = "Category already exists"
            /\ UNCHANGED categories]_vars

\* C28: each project has at most one category with is_default set.
C28_OneDefaultCategory ==
  \A p \in DOMAIN projects :
    Cardinality({c \in ProjectCategories(p) : categories[c].is_default}) <= 1

(* C27: at every point of a batch request the accepted ids and the failed
   entries together are as many as the actions handled so far, so the
   response holds one outcome per submitted action (metadata.total_count
   counts them); no client_action_id occurs twice in accepted *)
C27_OneOutcomePerAction ==
  batch.pc \in {"loop", "done"} =>
    /\ Len(batch.accepted) + Len(batch.failed) = batch.total
    /\ \A i, j \in 1..Len(batch.accepted) :
         batch.accepted[i] = batch.accepted[j] => i = j
    /\ batch.pc = "done" =>
         /\ batch.total_count = batch.total
         /\ batch.processed_count = Len(batch.accepted)

\* a finished batch of MaxBatch actions in which one id was accepted and its
\* repetition was refused
C27_Witness ==
  /\ batch.pc = "done"
  /\ batch.total = MaxBatch
  /\ Len(batch.accepted) >= 1
  /\ \E i \in 1..Len(batch.failed) :
       /\ batch.failed[i].reason = DuplicateReason
       /\ Contains(batch.accepted, batch.failed[i].clientActionId)


(* C29: Complete creates at most one Image row per stored file: no two Image
   rows of the same project and category reference the same storage path,
   whatever fileName and originalFileName the Complete requests carry *)
C29_OneRowPerStoredFile ==
  \A i, j \in images :
    (/\ i.project_id = j.project_id
     /\ i.category_id = j.category_id
     /\ i.s3_key_original = j.s3_key_original) => i.id = j.id

(* C30: the corrupted-image cleanup deletes an Image row only if the row's
   own backing file was found corrupted: a row of another project or
   category that shares its original file name with a corrupted file, and
   whose own file is valid, is kept *)
C30_CleanupDeletesOwnCorrupted ==
  [][resp'.op = "cleanup" =>
       \A i \in images \ images' : i.s3_key_original \in CorruptedFiles]_vars

====
